---- MODULE Spec2Model ----
(***************************************************************************)
(* Model of the ReplicOOP replication engine (core/replication.py with the *)
(* parts of core/database.py and core/config.py it calls).                 *)
(*                                                                         *)
(* A database is a function from table names to table records.  The        *)
(* source's foreign keys are the rows of information_schema                *)
(* .KEY_COLUMN_USAGE, kept as one sequence in row order.                   *)
(***************************************************************************)
EXTENDS Integers, Sequences, FiniteSets, TLC

\* ------------------------------------------------------------------ bounds
\* Most foreign-key rows in the source's KEY_COLUMN_USAGE (sort runs).
MaxFkRows == 3

\* Most foreign-key rows in the source's KEY_COLUMN_USAGE (plan runs).
MaxPlanFkRows == 1

\* Rows a table holds at most.
MaxRows == 2

\* Rows per batch of the data copy (the batch_size argument).
BatchSize == 1

\* ---------------------------------------------------------------- universe
Tables == {"A", "B", "C"}

\* The order in which SHOW TABLES lists names (MySQL sorts them).
TableOrder == <<"A", "B", "C">>

\* Column names; "id" is the identity (primary key) column where present.
Cols == {"id", "a", "b"}

\* SQL NULL.
NULL == -1

VARIABLES
    pc,        \* position of the operation being run
    fkRows,    \* source KEY_COLUMN_USAGE rows: <<[tbl, ref], ...>>
    sdb,       \* source database: table name -> table record
    tdb,       \* target database: table name -> table record
    tdb0,      \* the target database when the operation started
    maintain,  \* config 'maintain' list
    req,       \* the tables argument: [none |-> BOOLEAN, list |-> Seq]
    sortOut,   \* result of _sort_tables_by_dependencies
    plan,      \* result of get_replication_plan
    u,         \* locals of _update_table_structure_preserving_data
    ds,        \* locals of _replicate_table_data
    run,       \* locals of execute_replication
    val        \* validate_replication: the two schemas and the report

vars == <<pc, fkRows, sdb, tdb, tdb0, maintain, req, sortOut, plan, u, ds, run, val>>

\* ----------------------------------------------------------------- helpers
InSeq(x, s) == \E i \in 1..Len(s) : s[i] = x

Range(s) == {s[i] : i \in 1..Len(s)}

NoDup(s) == \A i, j \in 1..Len(s) : i # j => s[i] # s[j]

\* Sequences over S of length at most n.
BSeq(S, n) == UNION {[1..k -> S] : k \in 0..n}

\* Duplicate-free sequences over S.
Lists(S) == {s \in BSeq(S, Cardinality(S)) : NoDup(s)}

\* Index of the first occurrence of x in s (0 when absent).
IndexOf(x, s) == IF InSeq(x, s) THEN CHOOSE i \in 1..Len(s) : s[i] = x /\ \A j \in 1..(i-1) : s[j] # x ELSE 0

\* SHOW TABLES of a database holding the table set S.
get_tables(S) == SelectSeq(TableOrder, LAMBDA t : t \in S)

Max(x, y) == IF x >= y THEN x ELSE y

\* ------------------------------------------------------------- databases
\* temp_repl_<table>_<suffix> and backup_repl_<table>_<suffix>: the suffix
\* (time and a random number) makes the names fresh.
TempName(t) ==
    CASE t = "A" -> "temp_repl_A" [] t = "B" -> "temp_repl_B" [] OTHER -> "temp_repl_C"

BackupName(t) ==
    CASE t = "A" -> "backup_repl_A" [] t = "B" -> "backup_repl_B" [] OTHER -> "backup_repl_C"

Names == Tables \cup {TempName(t) : t \in Tables} \cup {BackupName(t) : t \in Tables}

\* A table: its columns, whether "id" is AUTO_INCREMENT, the table's
\* AUTO_INCREMENT counter, the tables its foreign keys reference, its rows.
Absent == [ex |-> FALSE, cols |-> {}, ai |-> FALSE, next |-> 1, fks |-> {}, rows |-> <<>>]

EmptyTable == [ex |-> TRUE, cols |-> {"id"}, ai |-> FALSE, next |-> 1, fks |-> {}, rows |-> <<>>]

NoTables == [n \in Names |-> Absent]

\* The names SHOW TABLES can list.
Existing(db) == {n \in DOMAIN db : db[n].ex}

\* CREATE TABLE fails when the name is taken or, foreign-key checks being on
\* in the statement's own fresh connection, when a referenced table is
\* missing.
CanCreate(db, stmt) ==
    /\ ~db[stmt.name].ex
    /\ \A r \in stmt.fks : r = stmt.name \/ db[r].ex

\* create_table_from_statement: the table named in the statement.
CreateTable(db, stmt) ==
    [db EXCEPT ![stmt.name] =
        [ex |-> TRUE, cols |-> stmt.cols, ai |-> stmt.ai, next |-> stmt.next,
         fks |-> stmt.fks, rows |-> <<>>]]

\* drop_table_if_exists issues SET FOREIGN_KEY_CHECKS = 0, the DROP and
\* SET FOREIGN_KEY_CHECKS = 1 on one connection; a DROP that fails is
\* re-raised before the third statement is issued.  The last toggle issued.
drop_table_fk(dropped) == IF dropped THEN "enable" ELSE "disable"

\* Mutant of DropTable: every table of the database is dropped.
DropTableAll(db, name) == [n \in DOMAIN db |-> Absent]

\* DROP TABLE IF EXISTS.
DropTable(db, name) == [db EXCEPT ![name] = Absent]

\* RENAME TABLE from TO: needs the source present and the new name free.
CanRename(db, from, to) == db[from].ex /\ ~db[to].ex

\* Mutant of RenameTable: the table arrives under its new name empty.
RenameTableEmptied(db, from, to) ==
    [db EXCEPT ![to] = [db[from] EXCEPT !.rows = <<>>], ![from] = Absent]

RenameTable(db, from, to) == [db EXCEPT ![to] = db[from], ![from] = Absent]

\* The identity value MySQL stores: an AUTO_INCREMENT column given 0 or NULL
\* takes the table's counter (the statement runs in a fresh connection, whose
\* sql_mode has no NO_AUTO_VALUE_ON_ZERO).
StoredId(tbl, row) ==
    IF tbl.ai /\ row["id"] \in {0, NULL} THEN tbl.next ELSE row["id"]

\* One row inserted: refused on a duplicate or NULL primary key.
InsertRow(tbl, row) ==
    IF "id" \notin tbl.cols
    THEN [ok |-> TRUE, tbl |-> [tbl EXCEPT !.rows = Append(@, row)]]
    ELSE LET v == StoredId(tbl, row)
         IN IF v = NULL \/ \E i \in 1..Len(tbl.rows) : tbl.rows[i]["id"] = v
            THEN [ok |-> FALSE, tbl |-> tbl]
            ELSE [ok |-> TRUE,
                  tbl |-> [tbl EXCEPT !.rows = Append(@, [row EXCEPT !["id"] = v]),
                                      !.next = IF tbl.ai THEN Max(@, v + 1) ELSE @]]

RECURSIVE InsertRows(_, _, _)
\* The rows of one statement, inserted in order.
InsertRows(tbl, rows, i) ==
    IF i > Len(rows) THEN [ok |-> TRUE, tbl |-> tbl]
    ELSE LET r == InsertRow(tbl, rows[i])
         IN IF r.ok THEN InsertRows(r.tbl, rows, i + 1) ELSE [ok |-> FALSE, tbl |-> tbl]

\* No structural update in progress.
NoUpdate ==
    [table |-> "", stmt |-> [name |-> "", cols |-> {}, ai |-> FALSE, next |-> 1, fks |-> {}],
     temp_table |-> FALSE, backup_table |-> FALSE, common |-> {},
     exc |-> FALSE, failed |-> "", cleanup_ok |-> TRUE, fk_last |-> "none"]

\* No run in progress: the loop index and the three lists of the report.
NoRun ==
    [i |-> 0, replicated_tables |-> <<>>, failed_tables |-> <<>>,
     data_replicated_tables |-> <<>>, errors |-> {}, data_raised |-> {},
     fk_failed |-> {}, retried |-> {}, fallback |-> FALSE,
     replicate_data |-> FALSE, success |-> FALSE, fk_last |-> "none",
     create_backup |-> FALSE, backups |-> 0, backup_failed |-> FALSE,
     first |-> <<>>]

\* No data synchronisation in progress.
NoData ==
    [table |-> "", field |-> FALSE, needs_fix |-> FALSE, original |-> 0,
     total |-> 0, processed |-> 0, failed |-> "", offsets |-> <<>>,
     mode |-> "none"]

\* ------------------------------------------- _sort_tables_by_dependencies
\* The REFERENCED_TABLE_NAME rows of one table, in row order.
FkQuery(rows, table) ==
    LET mine == SelectSeq(rows, LAMBDA r : r.tbl = table)
    IN [i \in 1..Len(mine) |-> mine[i].ref]

\* Mutant of Dependencies: only the first FK row of the table is kept.
DependenciesFirstOnly(rows, tables, table) ==
    LET all == SelectSeq(FkQuery(rows, table), LAMBDA r : InSeq(r, tables) /\ r # table)
    IN IF all = <<>> THEN <<>> ELSE <<all[1]>>

\* dependencies[table]: referenced tables that are listed and are not the
\* table itself.
Dependencies(rows, tables, table) ==
    SelectSeq(FkQuery(rows, table), LAMBDA r : InSeq(r, tables) /\ r # table)

RECURSIVE visit(_, _, _, _)
RECURSIVE visitDeps(_, _, _, _, _)

\* Mutant of visit: the table is emitted before its dependencies.
visitPreOrder(table, st, rows, tables) ==
    IF table \in st.temp_visited THEN st
    ELSE IF table \in st.visited THEN st
    ELSE LET s1 == [st EXCEPT !.temp_visited = @ \cup {table},
                              !.ordered = Append(@, table)]
             s2 == visitDeps(Dependencies(rows, tables, table), 1, s1, rows, tables)
         IN [s2 EXCEPT !.temp_visited = @ \ {table},
                       !.visited = @ \cup {table}]

\* Mutant of visit: a finished table is not recorded as visited.
visitNoMark(table, st, rows, tables) ==
    IF table \in st.temp_visited THEN st
    ELSE IF table \in st.visited THEN st
    ELSE LET s1 == [st EXCEPT !.temp_visited = @ \cup {table}]
             s2 == visitDeps(Dependencies(rows, tables, table), 1, s1, rows, tables)
         IN [s2 EXCEPT !.temp_visited = @ \ {table},
                       !.ordered = Append(@, table)]

\* visit(table): a table mid-visit (a cycle) or already emitted returns at
\* once; otherwise the dependencies are visited first, then the table is
\* emitted.
visit(table, st, rows, tables) ==
    IF table \in st.temp_visited THEN st
    ELSE IF table \in st.visited THEN st
    ELSE LET s1 == [st EXCEPT !.temp_visited = @ \cup {table}]
             s2 == visitDeps(Dependencies(rows, tables, table), 1, s1, rows, tables)
         IN [s2 EXCEPT !.temp_visited = @ \ {table},
                       !.visited = @ \cup {table},
                       !.ordered = Append(@, table)]

\* for dep_table in dependencies.get(table, []): if dep_table in tables: visit
visitDeps(deps, i, st, rows, tables) ==
    IF i > Len(deps) THEN st
    ELSE visitDeps(deps, i + 1,
                   IF InSeq(deps[i], tables) THEN visit(deps[i], st, rows, tables) ELSE st,
                   rows, tables)

RECURSIVE sortLoop(_, _, _, _)
\* for table in tables: if table not in visited: visit(table)
sortLoop(i, st, rows, tables) ==
    IF i > Len(tables) THEN st
    ELSE sortLoop(i + 1,
                  IF tables[i] \notin st.visited THEN visit(tables[i], st, rows, tables) ELSE st,
                  rows, tables)

sort_tables_by_dependencies(rows, tables) ==
    sortLoop(1, [ordered |-> <<>>, visited |-> {}, temp_visited |-> {}], rows, tables).ordered

\* --------------------------------------------------- get_replication_plan
\* DatabaseManager.get_foreign_keys: the rows come back as dictionaries
\* (execute_query uses a dictionary cursor) and are indexed row[0], so any
\* non-empty result raises KeyError; an empty one returns [].
get_foreign_keys(rows, table) ==
    IF FkQuery(rows, table) = <<>>
    THEN [raised |-> FALSE, fks |-> <<>>]
    ELSE [raised |-> TRUE, fks |-> <<>>]

\* Mutant of PlanTables: without an argument every source table is planned.
PlanTablesAllSource(r, maint, src) ==
    IF r.list # <<>> THEN r.list ELSE get_tables(src)

\* The table list the plan works on: the argument, else the maintain list,
\* else every source table.
PlanTables(r, maint, src) ==
    IF r.list # <<>> THEN r.list
    ELSE IF maint # <<>> THEN maint
    ELSE get_tables(src)

\* Mutant of TablePlan: the action does not look at the target.
TablePlanRecreate(table, rows, src, tgt) ==
    [name |-> table, action |-> "recreate", has_foreign_keys |-> FALSE,
     foreign_keys |-> <<>>]

\* One entry of tables_to_replicate.
TablePlan(table, rows, src, tgt) ==
    LET fk == get_foreign_keys(rows, table)
        has == ~fk.raised /\ fk.fks # <<>>
    IN [name |-> table,
        action |-> IF table \in tgt THEN "recreate" ELSE "create",
        has_foreign_keys |-> has,
        foreign_keys |-> IF has THEN fk.fks ELSE <<>>]

\* foreign_key_issues contributed by one table.
FkIssues(table, rows, src) ==
    LET fk == get_foreign_keys(rows, table)
    IN IF fk.raised THEN <<>>
       ELSE [i \in 1..Len(SelectSeq(fk.fks, LAMBDA x : x \notin src)) |->
                [ref |-> SelectSeq(fk.fks, LAMBDA x : x \notin src)[i], tbl |-> table]]

\* Mutant of InSourceTables: every table counts as found in the source.
InSourceTablesAlways(table, source_tables) == TRUE

\* if table not in source_tables: warn and continue
InSourceTables(table, source_tables) == table \in source_tables

RECURSIVE planLoop(_, _, _, _, _, _)
\* for table in tables: a warning or an entry of tables_to_replicate
planLoop(i, p, tables, rows, src, tgt) ==
    IF i > Len(tables) THEN p
    ELSE IF ~InSourceTables(tables[i], src)
         THEN planLoop(i + 1, [p EXCEPT !.warnings = Append(@, tables[i])],
                       tables, rows, src, tgt)
         ELSE planLoop(i + 1,
                       [p EXCEPT !.tables_to_replicate = Append(@, TablePlan(tables[i], rows, src, tgt)),
                                 !.foreign_key_issues = @ \o FkIssues(tables[i], rows, src)],
                       tables, rows, src, tgt)

\* Names of the plan's entries, in order.
PlanNames(p) == [i \in 1..Len(p.tables_to_replicate) |-> p.tables_to_replicate[i].name]

EmptyPlan ==
    [error |-> FALSE, source_tables |-> 0, target_tables |-> 0,
     tables_to_replicate |-> <<>>, tables_to_drop |-> <<>>,
     foreign_key_issues |-> <<>>, warnings |-> <<>>]

\* get_replication_plan(tables): error = TRUE stands for the
\* ReplicationError raised when there is no table to process.
get_replication_plan(r, maint, rows, src, tgt) ==
    LET tables == PlanTables(r, maint, src)
    IN IF tables = <<>> THEN [EmptyPlan EXCEPT !.error = TRUE]
       ELSE LET p0 == [EmptyPlan EXCEPT !.source_tables = Len(get_tables(src)),
                                        !.target_tables = Len(get_tables(tgt))]
                p1 == planLoop(1, p0, tables, rows, src, tgt)
            IN [p1 EXCEPT !.tables_to_drop =
                   SelectSeq(get_tables(tgt),
                             LAMBDA t : ~InSeq(t, tables) /\ ~InSeq(t, PlanNames(p1)))]

\* ----------------------------------------------------- validate_replication
\* The columns DESCRIBE returns, as dictionaries with the keys Field, Type,
\* Null, Key, Default and Extra.
Fields == {"id", "a"}

Column ==
    [Field : Fields, Type : {"int", "varchar"}, Null : {"NO", "YES"},
     Key : {"", "PRI"}, Default : {NULL, 0}, Extra : {"", "auto_increment"}]

\* A schema without tables: table name -> [ex, structure].
NoSchema == [t \in Tables |-> [ex |-> FALSE, structure |-> <<>>]]

\* DatabaseManager.get_table_structure: the DESCRIBE rows of the table,
\* each row kept as the dictionary the cursor returned.
get_table_structure(db, table) == db[table].structure

\* Mutant of normalize_structure_for_comparison: Key is kept.
normalize_structure_keeps_key(structure) == structure

\* _normalize_structure_for_comparison: every column reduced to Field, Type,
\* Null, Default and Extra.
normalize_structure_for_comparison(structure) ==
    [i \in 1..Len(structure) |->
        [Field |-> structure[i].Field, Type |-> structure[i].Type,
         Null |-> structure[i].Null, Default |-> structure[i].Default,
         Extra |-> structure[i].Extra]]

\* {col['Field']: col for col in structure}: the keys, and the column kept
\* under a key (the last one of that name).
FieldNames(structure) == {structure[i].Field : i \in 1..Len(structure)}

FieldColumn(structure, field) ==
    structure[CHOOSE i \in 1..Len(structure) :
                 /\ structure[i].Field = field
                 /\ \A j \in (i + 1)..Len(structure) : structure[j].Field # field]

\* The keys of the dictionary in insertion order.
FieldOrder(structure) ==
    LET first == SelectSeq([i \in 1..Len(structure) |-> i],
                           LAMBDA i : \A j \in 1..(i - 1) :
                                         structure[j].Field # structure[i].Field)
    IN [k \in 1..Len(first) |-> structure[first[k]].Field]

DifferenceLines(kind, fields) ==
    [k \in 1..Len(fields) |-> [kind |-> kind, field |-> fields[k]]]

\* Mutant of find_structure_differences: a column defined differently on
\* the two sides is not reported.
find_structure_differences_presence_only(source, target) ==
    DifferenceLines("origem", SelectSeq(FieldOrder(source),
                        LAMBDA f : f \notin FieldNames(target)))
    \o DifferenceLines("destino", SelectSeq(FieldOrder(target),
                        LAMBDA f : f \notin FieldNames(source)))

\* _find_structure_differences: one line per field only in the source, then
\* one per field only in the target, then one per field of both sides whose
\* two dictionaries differ.
find_structure_differences(source, target) ==
    DifferenceLines("origem", SelectSeq(FieldOrder(source),
                        LAMBDA f : f \notin FieldNames(target)))
    \o DifferenceLines("destino", SelectSeq(FieldOrder(target),
                        LAMBDA f : f \notin FieldNames(source)))
    \o DifferenceLines("diferente", SelectSeq(FieldOrder(source),
                        LAMBDA f : /\ f \in FieldNames(target)
                                   /\ FieldColumn(source, f) # FieldColumn(target, f)))

\* lines 461-464: the argument, else the maintain list, else every source
\* table.
ValidationTables(r, maint, src) ==
    IF r.list # <<>> THEN r.list
    ELSE IF maint # <<>> THEN maint
    ELSE get_tables(src)

\* The report before the loop (lines 466-472), with the two schemas.
NoValidation ==
    [source_db |-> NoSchema, target_db |-> NoSchema,
     i |-> 0, tables |-> <<>>, target_tables |-> <<>>,
     tables_validated |-> 0, structure_matches |-> <<>>,
     structure_differences |-> <<>>, missing_tables |-> <<>>, raised |-> {}]

\* Mutant of ValMissing: a missing table is counted as validated.
ValMissingCounted(v, table) ==
    [v EXCEPT !.missing_tables = Append(@, table), !.tables_validated = @ + 1]

\* lines 477-479: a table absent from the target.
ValMissing(v, table) == [v EXCEPT !.missing_tables = Append(@, table)]

\* lines 499-500: an exception inside the loop body is logged and the table
\* is left out of the report.
ValRaised(v, table) == [v EXCEPT !.raised = @ \cup {table}]

\* lines 481-497: the two structures are normalised and compared.
ValCompare(v, table) ==
    LET source_basic == normalize_structure_for_comparison(
                            get_table_structure(v.source_db, table))
        target_basic == normalize_structure_for_comparison(
                            get_table_structure(v.target_db, table))
    IN IF source_basic = target_basic
       THEN [v EXCEPT !.structure_matches = Append(@, table),
                      !.tables_validated = @ + 1]
       ELSE [v EXCEPT !.structure_differences =
                          Append(@, [table |-> table,
                                     differences |-> find_structure_differences(
                                                         source_basic, target_basic)]),
                      !.tables_validated = @ + 1]

\* ============================================================ SpecSort
\* _sort_tables_by_dependencies applied to every table list and FK rows
\* within the bounds.
FkRowSet == [tbl : Tables, ref : Tables]

NoReq == [none |-> TRUE, list |-> <<>>]

InitSort ==
    /\ pc = "sort"
    /\ fkRows \in BSeq(FkRowSet, MaxFkRows)
    /\ \E S \in SUBSET Tables : req \in [none : {FALSE}, list : {l \in Lists(S) : Range(l) = S}]
    /\ sdb = [t \in Tables |-> EmptyTable]
    /\ tdb = NoTables
    /\ tdb0 = tdb
    /\ val = NoValidation
    /\ maintain = <<>>
    /\ sortOut = <<>>
    /\ plan = EmptyPlan
    /\ u = NoUpdate
    /\ ds = NoData
    /\ run = NoRun

SortCall ==
    /\ pc = "sort"
    /\ sortOut' = sort_tables_by_dependencies(fkRows, req.list)
    /\ pc' = "sorted"
    /\ UNCHANGED <<fkRows, sdb, tdb, tdb0, maintain, req, plan, u, ds, run, val>>

NextSort == SortCall

SpecSort == InitSort /\ [][NextSort]_vars

\* The FK graph restricted to a table list: <<t, r>> when t references r.
Edges(rows, tables) ==
    {<<rows[i].tbl, rows[i].ref>> : i \in {j \in 1..Len(rows) :
        InSeq(rows[j].tbl, tables) /\ InSeq(rows[j].ref, tables)}}

RECURSIVE Closure(_, _, _)
\* Pairs joined by a path of at most n edges of E.
Closure(E, R, n) ==
    IF n = 0 THEN R
    ELSE Closure(E,
                 R \cup {q \in (Tables \X Tables) :
                            \E m \in Tables : <<q[1], m>> \in R /\ <<m, q[2]>> \in E},
                 n - 1)

Reach(rows, tables) == Closure(Edges(rows, tables), Edges(rows, tables), Cardinality(Tables))

HasCycle(rows, tables) == \E t \in Tables : <<t, t>> \in Reach(rows, tables)

Acyclic(rows, tables) == ~HasCycle(rows, tables)

\* Every listed table comes after each listed table it references.
DependencyOrdered(rows, tables, out) ==
    \A e \in Edges(rows, tables) :
        e[1] # e[2] => (InSeq(e[1], out) /\ InSeq(e[2], out)
                        /\ IndexOf(e[2], out) < IndexOf(e[1], out))

IsPermutation(out, tables) ==
    /\ Len(out) = Len(tables)
    /\ NoDup(out)
    /\ Range(out) = Range(tables)

C7_CyclicSortIsPermutation ==
    (pc = "sorted" /\ HasCycle(fkRows, req.list))
        => IsPermutation(sortOut, req.list)

\* A three-table cycle A -> B -> C -> A, sorted.
C7_Witness ==
    /\ pc = "sorted"
    /\ Edges(fkRows, req.list) = {<<"A", "B">>, <<"B", "C">>, <<"C", "A">>}
    /\ Len(sortOut) = 3

\* ============================================================ SpecPlan
\* get_replication_plan applied to the requests, maintain lists, table
\* sets and FK rows within the bounds.
InitPlan ==
    /\ pc = "plan"
    /\ fkRows \in BSeq(FkRowSet, MaxPlanFkRows)
    /\ req \in {NoReq} \cup [none : {FALSE}, list : Lists(Tables)]
    /\ \E S \in SUBSET Tables : sdb = [t \in Tables |-> IF t \in S THEN EmptyTable ELSE Absent]
    /\ \E S \in SUBSET {"A", "C"} : tdb = [n \in Names |-> IF n \in S THEN EmptyTable ELSE Absent]
    /\ tdb0 = tdb
    /\ val = NoValidation
    /\ maintain \in Lists({"A", "B"})
    /\ sortOut = <<>>
    /\ plan = EmptyPlan
    /\ u = NoUpdate
    /\ ds = NoData
    /\ run = NoRun

PlanCall ==
    /\ pc = "plan"
    /\ plan' = get_replication_plan(req, maintain, fkRows, Existing(sdb), Existing(tdb))
    /\ pc' = "planned"
    /\ UNCHANGED <<fkRows, sdb, tdb, tdb0, maintain, req, sortOut, u, ds, run, val>>

NextPlan == PlanCall

SpecPlan == InitPlan /\ [][NextPlan]_vars

\* C6: when the caller requests an explicit table list, the plan lists
\* every table after the requested tables it references (source A without
\* FK and B with an FK to A, requested [B, A]: tables_to_replicate is
\* ordered [A, B]).
C6_ExplicitListPlanOrdered ==
    (pc = "planned" /\ ~plan.error /\ req.list # <<>>
        /\ Acyclic(fkRows, PlanNames(plan)))
        => DependencyOrdered(fkRows, PlanNames(plan), PlanNames(plan))

\* ------------------------------- _update_table_structure_preserving_data
\* _clean_create_statement_for_temp: the statement renamed to the temporary
\* table, its FOREIGN KEY lines left out.
clean_create_statement_for_temp(stmt, temp_table_name) ==
    [stmt EXCEPT !.name = temp_table_name, !.fks = {}]

\* common_columns = [col for col in original_columns if col in new_columns]
CommonColumns(db, table) == db[table].cols \cap db[TempName(table)].cols

\* One row of INSERT INTO temp (cols) SELECT cols FROM original: the common
\* columns carry the old values, the other columns of temp their default.
CopiedRow(row, common, newcols) ==
    [c \in newcols |-> IF c \in common THEN row[c] ELSE NULL]

\* The whole INSERT ... SELECT, applied to the temporary table.
CopyRows(db, table, common) ==
    LET temp == db[TempName(table)]
        src == db[table].rows
    IN InsertRows(temp, [i \in 1..Len(src) |-> CopiedRow(src[i], common, temp.cols)], 1)

\* The exception of the inner try block is recorded and the finally block
\* runs next.
URaise(step) ==
    /\ u' = [u EXCEPT !.exc = TRUE, !.failed = IF @ = "" THEN step ELSE @]
    /\ pc' = "u_finally"

\* lines 907-908: SET FOREIGN_KEY_CHECKS = 0 (outside the inner try).
UDisableFk ==
    /\ pc = "u_begin"
    /\ \/ /\ pc' = "u_create"
          /\ u' = [u EXCEPT !.fk_last = "disable"]
       \/ /\ pc' = "u_except"
          /\ u' = [u EXCEPT !.failed = "disable_fk", !.fk_last = "disable"]
    /\ UNCHANGED <<fkRows, sdb, tdb, tdb0, maintain, req, sortOut, plan, ds, run, val>>

\* lines 911-915: create the temporary table.
UCreateTemp ==
    /\ pc = "u_create"
    /\ LET stmt == clean_create_statement_for_temp(u.stmt, TempName(u.table))
       IN \/ /\ CanCreate(tdb, stmt)
             /\ tdb' = CreateTable(tdb, stmt)
             /\ pc' = "u_columns"
             /\ UNCHANGED u
          \/ /\ URaise("create_temp")
             /\ UNCHANGED tdb
    /\ UNCHANGED <<fkRows, sdb, tdb0, maintain, req, sortOut, plan, ds, run, val>>

\* lines 917-926: the two column lists and their intersection.
UColumns ==
    /\ pc = "u_columns"
    /\ \/ /\ u' = [u EXCEPT !.common = CommonColumns(tdb, u.table)]
          /\ pc' = IF CommonColumns(tdb, u.table) # {} THEN "u_copy" ELSE "u_rename_backup"
       \/ URaise("columns")
    /\ UNCHANGED <<fkRows, sdb, tdb, tdb0, maintain, req, sortOut, plan, ds, run, val>>

\* lines 928-945: copy the rows, then count them.
UCopy ==
    /\ pc = "u_copy"
    /\ LET r == CopyRows(tdb, u.table, u.common)
       IN \/ /\ r.ok
             /\ tdb' = [tdb EXCEPT ![TempName(u.table)] = r.tbl]
             /\ pc' = "u_rename_backup"
             /\ UNCHANGED u
          \/ /\ URaise("copy")
             /\ UNCHANGED tdb
          \/ /\ r.ok
             /\ tdb' = [tdb EXCEPT ![TempName(u.table)] = r.tbl]
             /\ URaise("count")
    /\ UNCHANGED <<fkRows, sdb, tdb0, maintain, req, sortOut, plan, ds, run, val>>

\* lines 949-952: RENAME TABLE original TO backup.
URenameToBackup ==
    /\ pc = "u_rename_backup"
    /\ \/ /\ CanRename(tdb, u.table, BackupName(u.table))
          /\ tdb' = RenameTable(tdb, u.table, BackupName(u.table))
          /\ pc' = "u_rename_temp"
          /\ UNCHANGED u
       \/ /\ URaise("rename_backup")
          /\ UNCHANGED tdb
    /\ UNCHANGED <<fkRows, sdb, tdb0, maintain, req, sortOut, plan, ds, run, val>>

\* lines 954-960: RENAME TABLE temp TO original; temp_table = None.
URenameTemp ==
    /\ pc = "u_rename_temp"
    /\ \/ /\ CanRename(tdb, TempName(u.table), u.table)
          /\ tdb' = RenameTable(tdb, TempName(u.table), u.table)
          /\ u' = [u EXCEPT !.temp_table = FALSE]
          /\ pc' = "u_drop_backup"
       \/ /\ URaise("rename_temp")
          /\ UNCHANGED tdb
    /\ UNCHANGED <<fkRows, sdb, tdb0, maintain, req, sortOut, plan, ds, run, val>>

\* lines 962-965: drop the backup table; backup_table = None.
UDropBackup ==
    /\ pc = "u_drop_backup"
    /\ \/ /\ tdb' = DropTable(tdb, BackupName(u.table))
          /\ u' = [u EXCEPT !.backup_table = FALSE,
                            !.fk_last = drop_table_fk(TRUE)]
          /\ pc' = "u_finally"
       \/ /\ u' = [u EXCEPT !.exc = TRUE, !.failed = "drop_backup",
                            !.fk_last = drop_table_fk(FALSE)]
          /\ pc' = "u_finally"
          /\ UNCHANGED tdb
    /\ UNCHANGED <<fkRows, sdb, tdb0, maintain, req, sortOut, plan, ds, run, val>>

\* lines 969-976: SET FOREIGN_KEY_CHECKS = 1 in the finally block; when it
\* raises, or the try block raised, the outer except block runs.
UFinally ==
    /\ pc = "u_finally"
    /\ \/ /\ pc' = IF u.exc THEN "u_except" ELSE "u_returned"
          /\ u' = [u EXCEPT !.fk_last = "enable"]
       \/ /\ pc' = "u_except"
          /\ u' = [u EXCEPT !.failed = IF @ = "" THEN "enable_fk" ELSE @,
                            !.fk_last = "enable"]
    /\ UNCHANGED <<fkRows, sdb, tdb, tdb0, maintain, req, sortOut, plan, ds, run, val>>

\* The statements of the cleanup block that can fail.
CleanupStmts ==
    {"set_fk", "exists_temp", "drop_temp", "exists_backup", "exists_original",
     "restore", "drop_backup"}

\* The failures a run of the cleanup block can meet: any of the table_exists
\* queries (which answer False and let the block go on) and at most one of
\* the other statements, the first of which ends the block.
CleanupFailures ==
    {F \in SUBSET CleanupStmts :
        Cardinality(F \cap {"set_fk", "drop_temp", "restore", "drop_backup"}) <= 1}

\* Mutant of CleanupBackup: the backup is dropped instead of renamed back.
CleanupBackupDropsBackup(db, table, F) ==
    IF "drop_backup" \in F
    THEN [db |-> db, ok |-> FALSE]
    ELSE [db |-> DropTable(db, BackupName(table)), ok |-> TRUE]

\* lines 991-999: with the backup table present, rename it back when the
\* original name is vacant, else drop it.  table_exists answers False when
\* its queries fail.
CleanupBackup(db, table, F) ==
    IF ~(db[table].ex /\ "exists_original" \notin F)
    THEN IF "restore" \in F \/ ~CanRename(db, BackupName(table), table)
         THEN [db |-> db, ok |-> FALSE]
         ELSE [db |-> RenameTable(db, BackupName(table), table), ok |-> TRUE]
    ELSE IF "drop_backup" \in F
         THEN [db |-> db, ok |-> FALSE]
         ELSE [db |-> DropTable(db, BackupName(table)), ok |-> TRUE]

\* Mutant of CleanupTemp: the temporary table is left in place.
CleanupTempKept(db, loc, F) == [db |-> db, ok |-> TRUE]

\* lines 986-988: drop the temporary table if it is still there.
CleanupTemp(db, loc, F) ==
    IF loc.temp_table /\ db[TempName(loc.table)].ex
    THEN IF "exists_temp" \in F THEN [db |-> db, ok |-> FALSE]
         ELSE IF "drop_temp" \in F THEN [db |-> db, ok |-> FALSE]
         ELSE [db |-> DropTable(db, TempName(loc.table)), ok |-> TRUE]
    ELSE [db |-> db, ok |-> TRUE]

\* lines 982-1002: the cleanup block, F being the statements that fail when
\* run.  ok is FALSE when a statement of the block failed.
Cleanup(db, loc, F) ==
    IF "set_fk" \in F THEN [db |-> db, ok |-> FALSE]
    ELSE LET t == CleanupTemp(db, loc, F)
         IN IF ~t.ok /\ "exists_temp" \notin F THEN t
            ELSE IF loc.backup_table /\ t.db[BackupName(loc.table)].ex
                 THEN IF "exists_backup" \in F THEN [db |-> t.db, ok |-> FALSE]
                      ELSE LET b == CleanupBackup(t.db, loc.table, F)
                           IN [db |-> b.db,
                               ok |-> t.ok /\ b.ok
                                      /\ ~("exists_original" \in F /\ t.db[loc.table].ex)]
                 ELSE t

\* Mutant of CleanupFinallyFk: the cleanup leaves the toggle as it is.
CleanupFinallyFkSkipped(last) == "disable"

\* lines 1003-1008: the finally block of the cleanup issues
\* SET FOREIGN_KEY_CHECKS = 1 (its failure is swallowed) after the
\* SET FOREIGN_KEY_CHECKS = 0 of line 984 and the drops of the cleanup.
CleanupFinallyFk(last) == "enable"

\* lines 978-1011: cleanup, then the ReplicationError is raised.
UCleanup ==
    /\ pc = "u_except"
    /\ \E F \in CleanupFailures :
          LET c == Cleanup(tdb, u, F)
          IN /\ tdb' = c.db
             /\ u' = [u EXCEPT !.cleanup_ok = c.ok,
                               !.fk_last = CleanupFinallyFk(@)]
    /\ pc' = "u_raised"
    /\ UNCHANGED <<fkRows, sdb, tdb0, maintain, req, sortOut, plan, ds, run, val>>

UpdateStep ==
    \/ UDisableFk
    \/ UCreateTemp
    \/ UColumns
    \/ UCopy
    \/ URenameToBackup
    \/ URenameTemp
    \/ UDropBackup
    \/ UFinally
    \/ UCleanup

\* ============================================================= SpecUpd
\* _update_table_structure_preserving_data(UpdTable, stmt) on a target that
\* holds the table with any columns and rows within the bounds, for any new
\* definition; every statement may fail.
UpdTable == "A"

\* Row sequences over a column set: row i holds i - 1 or i in every
\* column, the values growing along the sequence (so the identity values
\* are distinct and may include 0).
RowSeqs(cols, n) ==
    UNION {{[i \in 1..k |-> [c \in cols |-> i - 1 + vs[i]]] :
               vs \in {w \in [1..k -> {0, 1}] : \A i \in 1..k : \A j \in i..k : w[i] <= w[j]}} :
           k \in 0..n}

\* The AUTO_INCREMENT counter of a table holding rows.
NextOf(cols, rows) ==
    IF "id" \in cols /\ rows # <<>> THEN 1 + rows[Len(rows)]["id"] ELSE 1

TableDefs ==
    {d \in [cols : (SUBSET Cols) \ {{}}, ai : BOOLEAN] : d.ai => "id" \in d.cols}

InitUpd ==
    /\ pc = "u_begin"
    /\ fkRows = <<>>
    /\ sdb = [t \in Tables |-> Absent]
    /\ \E d \in TableDefs : \E rows \in RowSeqs(d.cols, MaxRows) :
          tdb = [NoTables EXCEPT ![UpdTable] =
                    [ex |-> TRUE, cols |-> d.cols, ai |-> d.ai,
                     next |-> NextOf(d.cols, rows), fks |-> {}, rows |-> rows]]
    /\ tdb0 = tdb
    /\ val = NoValidation
    /\ maintain = <<>>
    /\ req = NoReq
    /\ sortOut = <<>>
    /\ plan = EmptyPlan
    /\ \E d \in TableDefs : \E n \in 1..2 :
          u = [NoUpdate EXCEPT !.table = UpdTable,
                               !.stmt = [name |-> UpdTable, cols |-> d.cols, ai |-> d.ai,
                                         next |-> IF d.ai THEN n ELSE 1, fks |-> {}],
                               !.temp_table = TRUE, !.backup_table = TRUE]
    /\ ds = NoData
    /\ run = NoRun

NextUpd == UpdateStep

SpecUpd == InitUpd /\ [][NextUpd]_vars

\* C1: for a table with N rows, after the structural update succeeds for
\* any new definition, the table under the original name has the new column
\* set (so none of the dropped columns), still has exactly N rows, and
\* keeps the old values in every column common to old and new definitions.
C1_UpdatePreservesRows ==
    pc = "u_returned" =>
        /\ tdb[u.table].ex
        /\ tdb[u.table].cols = u.stmt.cols
        /\ Len(tdb[u.table].rows) = Len(tdb0[u.table].rows)
        /\ \A i \in 1..Len(tdb0[u.table].rows) :
              \A c \in tdb0[u.table].cols \cap u.stmt.cols :
                  /\ i <= Len(tdb[u.table].rows)
                  /\ tdb[u.table].rows[i][c] = tdb0[u.table].rows[i][c]

\* The steps the claim names: temp creation, row copy, either rename, backup
\* drop.
ClaimedSteps ==
    {"create_temp", "copy", "rename_backup", "rename_temp", "drop_backup"}

UndoneSteps ==
    {"disable_fk", "create_temp", "columns", "copy", "count", "rename_backup", "rename_temp"}

HasZeroIdNever(db, table) == FALSE

HasZeroId(db, table) ==
    \E i \in 1..Len(db[table].rows) : db[table].rows[i]["id"] = 0

\* lines 556-563: the AUTO_INCREMENT=n option of SHOW CREATE TABLE, which
\* MySQL prints when the counter is above 1; 0 stands for None.
OriginalAutoIncrement(tbl) == IF tbl.next > 1 THEN tbl.next ELSE 0

\* Mutant of DeleteAll: the target rows are kept.
DeleteAllKeeps(tbl) == tbl

\* line 584: DELETE FROM table.
DeleteAll(tbl) == [tbl EXCEPT !.rows = <<>>]

\* REPLACE INTO, one row: the rows holding the same primary key are deleted,
\* then the row is inserted.
ReplaceRow(tbl, row) ==
    IF "id" \notin tbl.cols THEN InsertRow(tbl, row)
    ELSE LET v == StoredId(tbl, row)
             keep == SelectSeq(tbl.rows, LAMBDA r : r["id"] # v)
         IN InsertRow([tbl EXCEPT !.rows = keep], row)

RECURSIVE ReplaceRows(_, _, _)
\* The rows of one REPLACE statement, in order.
ReplaceRows(tbl, rows, i) ==
    IF i > Len(rows) THEN [ok |-> TRUE, tbl |-> tbl]
    ELSE LET r == ReplaceRow(tbl, rows[i])
         IN IF r.ok THEN ReplaceRows(r.tbl, rows, i + 1) ELSE [ok |-> FALSE, tbl |-> tbl]

\* Mutant of SelectBatch: the OFFSET is ignored.
SelectBatchFromStart(db, table, batch_size, processed) ==
    SubSeq(db[table].rows, 1,
           IF batch_size < Len(db[table].rows) THEN batch_size ELSE Len(db[table].rows))

\* lines 620: SELECT * FROM table LIMIT batch_size OFFSET processed.
SelectBatch(db, table, batch_size, processed) ==
    SubSeq(db[table].rows, processed + 1,
           IF processed + batch_size < Len(db[table].rows)
           THEN processed + batch_size ELSE Len(db[table].rows))

\* lines 625-630: the values of the source's columns, laid on the target's
\* columns (a target column the statement does not name takes its default).
RowValues(row, column_names, tcols) ==
    [c \in tcols |-> IF c \in column_names THEN row[c] ELSE NULL]

\* lines 604-612 and 637: the batch written with the statement chosen for
\* the table; a column unknown to the target fails the statement.
InsertBatch(tbl, batch, column_names, loc) ==
    IF ~(column_names \subseteq tbl.cols) THEN [ok |-> FALSE, tbl |-> tbl]
    ELSE LET vals == [i \in 1..Len(batch) |-> RowValues(batch[i], column_names, tbl.cols)]
         IN IF loc.needs_fix THEN InsertRows(tbl, vals, 1)
            ELSE IF loc.field THEN ReplaceRows(tbl, vals, 1)
            ELSE InsertRows(tbl, vals, 1)

\* database.py 147-169: the SET SESSION sql_mode statements of the call, the
\* zero-preserving ones (True) or the restore of the default (False); the
\* call swallows its own errors.
set_zero_preserve_mode(enable) == IF enable THEN "preserve" ELSE "default"

\* The exception handler of lines 700-708: the default mode is asked for
\* and the DatabaseOperationError is raised.
DRaise(step) ==
    /\ ds' = [ds EXCEPT !.failed = step, !.mode = set_zero_preserve_mode(FALSE)]
    /\ pc' = "d_raised"

\* lines 531-564: the zero-preserving mode is asked for, the target's
\* structure is read, the identity column is
\* looked for, the source is asked for identity-0 rows and the target's
\* counter is saved.
DInspect ==
    /\ pc = "d_begin"
    /\ LET t == ds.table
           field == tdb[t].ai
           fix == field /\ HasZeroId(sdb, t)
       IN \/ /\ tdb[t].ex
             /\ field => (sdb[t].ex /\ "id" \in sdb[t].cols)
             /\ ds' = [ds EXCEPT !.mode = set_zero_preserve_mode(TRUE),
                                 !.field = field, !.needs_fix = fix,
                                 !.original = IF fix THEN OriginalAutoIncrement(tdb[t]) ELSE 0]
             /\ pc' = IF fix THEN "d_alter" ELSE "d_delete"
          \/ DRaise("inspect")
    /\ UNCHANGED <<fkRows, sdb, tdb, tdb0, maintain, req, sortOut, plan, u, run, val>>

\* Mutant of RemoveAutoIncrement: the column keeps AUTO_INCREMENT.
RemoveAutoIncrementKeeps(tbl) == tbl

\* lines 570-579: the identity column redefined without AUTO_INCREMENT.
RemoveAutoIncrement(tbl) == [tbl EXCEPT !.ai = FALSE]

\* lines 566-580: ALTER TABLE ... MODIFY COLUMN without AUTO_INCREMENT.
DAlter ==
    /\ pc = "d_alter"
    /\ \/ /\ tdb' = [tdb EXCEPT ![ds.table] = RemoveAutoIncrement(@)]
          /\ pc' = "d_delete"
          /\ UNCHANGED ds
       \/ /\ DRaise("alter")
          /\ UNCHANGED tdb
    /\ UNCHANGED <<fkRows, sdb, tdb0, maintain, req, sortOut, plan, u, run, val>>

\* lines 582-584: the target's rows are deleted.
DDelete ==
    /\ pc = "d_delete"
    /\ \/ /\ tdb' = [tdb EXCEPT ![ds.table] = DeleteAll(@)]
          /\ pc' = "d_count"
          /\ UNCHANGED ds
       \/ /\ DRaise("delete")
          /\ UNCHANGED tdb
    /\ UNCHANGED <<fkRows, sdb, tdb0, maintain, req, sortOut, plan, u, run, val>>

\* lines 586-598: the source's rows are counted; an empty source returns at
\* once, otherwise the source's columns are read.
DCount ==
    /\ pc = "d_count"
    /\ \/ /\ sdb[ds.table].ex
          /\ ds' = [ds EXCEPT !.total = Len(sdb[ds.table].rows), !.processed = 0]
          /\ pc' = IF Len(sdb[ds.table].rows) = 0 THEN "d_returned" ELSE "d_batch"
       \/ DRaise("count")
    /\ UNCHANGED <<fkRows, sdb, tdb, tdb0, maintain, req, sortOut, plan, u, run, val>>

\* lines 618-640: one turn of the batch loop, and the loop's exit test.
DBatch ==
    /\ pc = "d_batch"
    /\ LET t == ds.table
           batch_data == SelectBatch(sdb, t, BatchSize, ds.processed)
           r == InsertBatch(tdb[t], batch_data, sdb[t].cols, ds)
           done == ds.processed + Len(batch_data)
       IN \/ /\ r.ok
             /\ tdb' = [tdb EXCEPT ![t] = r.tbl]
             /\ ds' = [ds EXCEPT !.processed = done,
                                 !.offsets = Append(@, ds.processed)]
             /\ pc' = IF batch_data # <<>> /\ done < ds.total THEN "d_batch" ELSE "d_post"
          \/ /\ DRaise("batch")
             /\ UNCHANGED tdb
    /\ UNCHANGED <<fkRows, sdb, tdb0, maintain, req, sortOut, plan, u, run, val>>

\* Mutant of RestoreAutoIncrement: the counter is left where it was.
RestoreAutoIncrementOnly(tbl, original) == [tbl EXCEPT !.ai = TRUE]

\* lines 669-681: the identity column takes AUTO_INCREMENT back and the
\* counter is set past the rows and the saved value.
RestoreAutoIncrement(tbl, original) ==
    LET ids == {tbl.rows[i]["id"] : i \in 1..Len(tbl.rows)}
        current_max == IF ids = {} THEN 0 ELSE CHOOSE m \in ids : \A x \in ids : x <= m
    IN [tbl EXCEPT !.ai = TRUE,
                   !.next = Max(Max(@, current_max + 1), original)]

\* lines 642-698: the target is asked for identity-0 rows; when the
\* protocol removed auto-generation and no such row is there, it is
\* restored; then the routine returns.  A failure of the restoring
\* statements leaves the column with or without AUTO_INCREMENT.
DPost ==
    /\ pc = "d_post"
    /\ LET t == ds.table
           restore == ds.needs_fix /\ ds.field /\ ~HasZeroId(tdb, t)
           after == IF restore THEN RestoreAutoIncrement(tdb[t], ds.original) ELSE tdb[t]
       IN \/ /\ tdb' = [tdb EXCEPT ![t] = after]
             /\ pc' = "d_returned"
             /\ ds' = [ds EXCEPT !.mode = set_zero_preserve_mode(FALSE)]
          \/ /\ DRaise("post")
             /\ \E done \in BOOLEAN :
                   tdb' = [tdb EXCEPT ![t].ai = IF restore /\ done THEN TRUE ELSE @]
    /\ UNCHANGED <<fkRows, sdb, tdb0, maintain, req, sortOut, plan, u, run, val>>

DataStep ==
    \/ DInspect
    \/ DAlter
    \/ DDelete
    \/ DCount
    \/ DBatch
    \/ DPost

\* ============================================================= SpecData
\* _replicate_table_data(DataTable) with the table in both databases under
\* one column set, any rows within the bounds on each side, the target's
\* identity column with or without AUTO_INCREMENT; every statement may fail.
DataTable == "A"

InitData ==
    /\ pc = "d_begin"
    /\ fkRows = <<>>
    /\ \E def \in TableDefs :
       \E srows \in RowSeqs(def.cols, MaxRows) :
       \E trows \in RowSeqs(def.cols, MaxRows) :
       \E tai \in {a \in BOOLEAN : a => "id" \in def.cols} :
          /\ sdb = [t \in Tables |->
                      IF t = DataTable
                      THEN [ex |-> TRUE, cols |-> def.cols, ai |-> def.ai,
                            next |-> NextOf(def.cols, srows), fks |-> {}, rows |-> srows]
                      ELSE Absent]
          /\ tdb = [NoTables EXCEPT ![DataTable] =
                      [ex |-> TRUE, cols |-> def.cols, ai |-> tai,
                       next |-> NextOf(def.cols, trows), fks |-> {}, rows |-> trows]]
    /\ tdb0 = tdb
    /\ val = NoValidation
    /\ maintain = <<>>
    /\ req = NoReq
    /\ sortOut = <<>>
    /\ plan = EmptyPlan
    /\ u = NoUpdate
    /\ ds = [NoData EXCEPT !.table = DataTable]
    /\ run = NoRun

NextData == DataStep

SpecData == InitData /\ [][NextData]_vars

\* The positions of the rows whose identity value is 0.
ZeroRows(tbl) ==
    IF "id" \in tbl.cols THEN {i \in 1..Len(tbl.rows) : tbl.rows[i]["id"] = 0} ELSE {}

\* C3: for a table whose source identity (AUTO_INCREMENT) column holds a
\* row with value 0, after _replicate_table_data completes the target holds
\* as many identity-0 rows as the source (at least one) and its identity
\* column no longer has AUTO_INCREMENT.
C3_ZeroIdentityPreserved ==
    (pc = "d_returned" /\ sdb[ds.table].ai /\ ZeroRows(sdb[ds.table]) # {}) =>
        /\ Cardinality(ZeroRows(tdb[ds.table])) = Cardinality(ZeroRows(sdb[ds.table]))
        /\ ~tdb[ds.table].ai

\* The sync completed on a target that began with AUTO_INCREMENT, from a
\* source of two rows, one of them with identity 0.
C3_Witness ==
    /\ pc = "d_returned"
    /\ sdb[ds.table].ai
    /\ tdb0[ds.table].ai
    /\ ZeroRows(sdb[ds.table]) # {}
    /\ Len(sdb[ds.table].rows) = 2
    /\ ZeroRows(tdb[ds.table]) # {}
    /\ ds.processed = 2

\* C8: after _replicate_table_data succeeds the target table's rows are
\* exactly the source table's rows: no row the target held before survives,
\* and an empty source leaves an empty target.
C8_FullReplace ==
    pc = "d_returned" => tdb[ds.table].rows = sdb[ds.table].rows

\* The sync completed on a target that held a row the source does not have.
C8_Witness ==
    /\ pc = "d_returned"
    /\ Len(sdb[ds.table].rows) = 2
    /\ \E i \in 1..Len(tdb0[ds.table].rows) :
          \A j \in 1..Len(sdb[ds.table].rows) :
              tdb0[ds.table].rows[i] # sdb[ds.table].rows[j]
    /\ tdb[ds.table].rows = sdb[ds.table].rows

\* ==================================================== execute_replication
\* Mutant of IsMaintain: every table is taken for a maintained one.
IsMaintainAlways(table, maint) == TRUE

\* line 259: is_maintain_table = table_name in maintain_tables.
IsMaintain(table, maint) == InSeq(table, maint)

\* line 265: the source's CREATE TABLE statement, with the table's
\* AUTO_INCREMENT option and foreign keys.
get_create_table_statement(db, table) ==
    [name |-> table, cols |-> db[table].cols, ai |-> db[table].ai,
     next |-> db[table].next, fks |-> db[table].fks]

\* Mutant of RunTables: without a list the planner is left to its own
\* default, the maintain list.
RunTablesPlannerDefault(r, rows, src) ==
    IF r.none THEN <<>> ELSE r.list

\* lines 226-232: the table list handed to the planner, sorted only when
\* no list was given.
RunTables(r, rows, src) ==
    IF r.none THEN sort_tables_by_dependencies(rows, get_tables(src)) ELSE r.list

\* Mutant of ReportSuccess: the report always says success.
ReportSuccessAlways(r) == TRUE

\* line 393: 'success': len(failed_tables) == 0.
ReportSuccess(r) == r.failed_tables = <<>>

\* Mutant of enable_foreign_key_checks: no statement is issued.
enable_foreign_key_checks_skipped(last) == last

\* line 376, DatabaseManager.enable_foreign_key_checks: the statement
\* SET FOREIGN_KEY_CHECKS = 1 is issued on a connection of its own; its
\* failure is logged and swallowed.  The last toggle issued.
enable_foreign_key_checks(last) == "enable"

\* line 248, DatabaseManager.disable_foreign_key_checks: the statement
\* SET FOREIGN_KEY_CHECKS = 0 is issued on a connection of its own; its
\* failure is logged and swallowed.  The last toggle issued.
disable_foreign_key_checks(last) == "disable"

\* The loop moves to the next plan entry; after the last one the report is
\* built (lines 376-401), success being the absence of failed tables.
RAdvance(r) ==
    /\ run' = [r EXCEPT !.i = @ + 1,
                        !.success = IF r.i < Len(plan.tables_to_replicate) THEN @
                                    ELSE ReportSuccess(r),
                        !.fk_last = IF r.i < Len(plan.tables_to_replicate) THEN @
                                    ELSE enable_foreign_key_checks(@)]
    /\ pc' = IF r.i < Len(plan.tables_to_replicate) THEN "r_table" ELSE "r_report"

\* lines 347-350, 353-356, 363-366: the entry appended to failed_tables.
ErrorReport(r, table) ==
    [r EXCEPT !.failed_tables = Append(@, table), !.errors = @ \cup {table}]

\* Mutant of RFail: the table's error leaves the loop and the run raises.
RFailAborts(r, table) ==
    /\ run' = [r EXCEPT !.errors = @ \cup {table}]
    /\ pc' = "r_raised"

\* lines 362-366: the table's error is appended to failed_tables.
RFail(r, table) == RAdvance(ErrorReport(r, table))

\* The class of the exception that leaves execute_query, execute_many_query
\* and drop_table_if_exists when MySQL refuses a statement: the MySQLError
\* is raised inside the with block of get_connection, whose own handler
\* turns it into DatabaseConnectionError before the handler written for
\* DatabaseOperationError can see it.
execute_query_error == "DatabaseConnectionError"

\* Mutant of FkFallbackApplies: every exception takes the fallback.
FkFallbackAppliesAlways(exc_type, fk_message) == TRUE

\* lines 318-320: the handler of the FK-failure fallback takes only a
\* DatabaseOperationError whose message names a foreign key or constraint.
FkFallbackApplies(exc_type, fk_message) ==
    exc_type = "DatabaseOperationError" /\ fk_message

\* _remove_foreign_keys_from_create_statement: the statement without its
\* FOREIGN KEY lines.
remove_foreign_keys_from_create_statement(stmt) == [stmt EXCEPT !.fks = {}]

\* lines 318-366: an exception raised while the table is processed, db
\* being the target at that point.  Under the fallback the table is dropped
\* and created once more from the statement without foreign keys, then
\* reported with the no-FK tag (a maintained table first has its data
\* synchronised when replicate_data is set), or put in failed_tables when
\* the retry fails; any other exception puts the table in failed_tables.
RTableError(r, table, exc_type, fk_message, db, stmt) ==
    IF FkFallbackApplies(exc_type, fk_message)
    THEN LET modified == remove_foreign_keys_from_create_statement(stmt)
             dropped == DropTable(db, table)
             rr == [r EXCEPT !.retried = @ \cup {table},
                             !.fk_last = drop_table_fk(TRUE)]
         IN \/ /\ tdb' = db
               /\ RFail([rr EXCEPT !.fk_last = drop_table_fk(FALSE)], table)
               /\ UNCHANGED ds
            \/ /\ tdb' = dropped
               /\ RFail(rr, table)
               /\ UNCHANGED ds
            \/ /\ CanCreate(dropped, modified)
               /\ tdb' = CreateTable(dropped, modified)
               /\ IF IsMaintain(table, maintain) /\ r.replicate_data
                  THEN /\ run' = [rr EXCEPT !.fallback = TRUE]
                       /\ ds' = [NoData EXCEPT !.table = table]
                       /\ pc' = "d_begin"
                  ELSE /\ RAdvance([rr EXCEPT !.replicated_tables =
                                       Append(@, [name |-> table, tag |-> "sem FKs"])])
                       /\ UNCHANGED ds
    ELSE /\ RFail(r, table)
         /\ tdb' = db
         /\ UNCHANGED ds

\* Mutant of BackupWanted: the backup is never made.
BackupWantedNever(create_backup) == FALSE

\* line 221: if create_backup.
BackupWanted(create_backup) == create_backup

\* lines 220-222 and create_backup_before_replication: the safety backup of
\* the target is dumped when asked for; its failure raises ReplicationError
\* out of the run.
RBackup ==
    /\ pc = "r_begin"
    /\ \/ /\ ~BackupWanted(run.create_backup)
          /\ pc' = "r_plan"
          /\ UNCHANGED run
       \/ /\ BackupWanted(run.create_backup)
          /\ pc' = "r_plan"
          /\ run' = [run EXCEPT !.backups = @ + 1]
       \/ /\ BackupWanted(run.create_backup)
          /\ pc' = "r_raised"
          /\ run' = [run EXCEPT !.backup_failed = TRUE]
    /\ UNCHANGED <<fkRows, sdb, tdb, tdb0, maintain, req, sortOut, plan, u, ds, val>>

\* Mutant of EmptyPlanReport: the short report says failure.
EmptyPlanReportFailure(r) == [r EXCEPT !.success = FALSE]

\* lines 236-242: the short report returned when the plan has no entry.
EmptyPlanReport(r) == [r EXCEPT !.success = TRUE]

\* lines 224-252: table list, plan; an empty plan returns a report at once,
\* a failure raises ReplicationError.
RStart ==
    /\ pc = "r_plan"
    /\ LET tables == RunTables(req, fkRows, Existing(sdb))
           p == get_replication_plan([none |-> FALSE, list |-> tables], maintain,
                                     fkRows, Existing(sdb), Existing(tdb))
       IN \/ /\ plan' = p
             /\ sortOut' = tables
             /\ IF p.error THEN pc' = "r_raised" /\ UNCHANGED run
                ELSE IF p.tables_to_replicate = <<>>
                     THEN pc' = "r_report" /\ run' = EmptyPlanReport(run)
                     ELSE /\ pc' = "r_table"
                          /\ run' = [run EXCEPT !.i = 1,
                                                !.fk_last = disable_foreign_key_checks(@)]
          \/ /\ pc' = "r_raised"
             /\ UNCHANGED <<plan, sortOut, run>>
    /\ UNCHANGED <<fkRows, sdb, tdb, tdb0, maintain, req, u, ds, val>>

\* lines 267-291: a maintained table is dropped, created from the source's
\* statement, its counter reset (errors of the reset are swallowed), and
\* its data synchronisation is called.  The statements may fail; the CREATE
\* fails with a foreign-key error when a referenced table is missing.
RMaintain ==
    /\ pc = "r_table"
    /\ LET t == plan.tables_to_replicate[run.i].name
           stmt == get_create_table_statement(sdb, t)
           dropped == DropTable(tdb, t)
           fk == \E ref \in stmt.fks : ref # t /\ ~dropped[ref].ex
       IN /\ IsMaintain(t, maintain)
          /\ \/ \E last \in {run.fk_last, drop_table_fk(FALSE)} :
                   RTableError([run EXCEPT !.fk_last = last],
                               t, execute_query_error, FALSE, tdb, stmt)
             \/ RTableError([run EXCEPT !.fk_last = drop_table_fk(TRUE)],
                            t, execute_query_error, FALSE, dropped, stmt)
             \/ /\ fk
                /\ RTableError([run EXCEPT !.fk_failed = @ \cup {t},
                                           !.fk_last = drop_table_fk(TRUE)],
                               t, execute_query_error, TRUE, dropped, stmt)
             \/ /\ CanCreate(dropped, stmt)
                /\ \E reset \in BOOLEAN :
                      tdb' = [CreateTable(dropped, stmt) EXCEPT
                                 ![t].next = IF reset THEN 1 ELSE @]
                /\ ds' = [NoData EXCEPT !.table = t]
                /\ pc' = "d_begin"
                /\ run' = [run EXCEPT !.fk_last = drop_table_fk(TRUE)]
    /\ UNCHANGED <<fkRows, sdb, tdb0, maintain, req, sortOut, plan, u, val>>

\* Mutant of DataDoneReport: the table is left out of replicated_tables.
DataDoneReportUnlisted(r, table) ==
    [r EXCEPT !.data_replicated_tables = Append(@, table)]

\* lines 292-293 (336-337 under the fallback): the table is appended to
\* data_replicated_tables and to replicated_tables with the
\* structure-and-data tag.
DataDoneReport(r, table) ==
    [r EXCEPT !.data_replicated_tables = Append(@, table),
              !.replicated_tables =
                  Append(@, [name |-> table,
                             tag |-> IF r.fallback THEN "sem FKs, estrutura + dados"
                                     ELSE "estrutura + dados"]),
              !.fallback = FALSE]

\* lines 292-293: the data synchronisation returned.
RDataDone ==
    /\ pc = "d_returned"
    /\ run.i > 0
    /\ RAdvance(DataDoneReport(run, ds.table))
    /\ ds' = NoData
    /\ UNCHANGED <<fkRows, sdb, tdb, tdb0, maintain, req, sortOut, plan, u, val>>

\* Mutant of DataFailureReport: the table goes to failed_tables.
DataFailureReportAsFailed(r, table) ==
    [r EXCEPT !.failed_tables = Append(@, table),
              !.errors = @ \cup {table},
              !.data_raised = @ \cup {table}]

\* lines 295-298 (338-340 under the fallback): the handler of a data
\* synchronisation that raised appends the table to replicated_tables with
\* the structure-only tag; nothing goes to failed_tables.
DataFailureReport(r, table) ==
    [r EXCEPT !.replicated_tables =
                  Append(@, [name |-> table,
                             tag |-> IF r.fallback THEN "sem FKs" ELSE "apenas estrutura"]),
              !.errors = @ \cup {table},
              !.data_raised = @ \cup {table},
              !.fallback = FALSE]

\* lines 295-298: the data synchronisation raised; the table is reported
\* with its structure only.
RDataFailed ==
    /\ pc = "d_raised"
    /\ run.i > 0
    /\ RAdvance(DataFailureReport(run, ds.table))
    /\ ds' = NoData
    /\ UNCHANGED <<fkRows, sdb, tdb, tdb0, maintain, req, sortOut, plan, u, val>>

\* lines 300-316: a non-maintained table found in the target goes through
\* the structural update; one not found (table_exists answers False also
\* when its queries fail) is created from the source's statement, empty.
RStructure ==
    /\ pc = "r_table"
    /\ LET t == plan.tables_to_replicate[run.i].name
           stmt == get_create_table_statement(sdb, t)
           fk == ~tdb[t].ex /\ \E ref \in stmt.fks : ref # t /\ ~tdb[ref].ex
       IN /\ ~IsMaintain(t, maintain)
          /\ \/ /\ RTableError(run, t, execute_query_error, FALSE, tdb, stmt)
                /\ UNCHANGED u
             \/ /\ fk
                /\ RTableError([run EXCEPT !.fk_failed = @ \cup {t}],
                               t, execute_query_error, TRUE, tdb, stmt)
                /\ UNCHANGED u
             \/ /\ tdb[t].ex
                /\ u' = [NoUpdate EXCEPT !.table = t, !.stmt = stmt,
                                         !.temp_table = TRUE, !.backup_table = TRUE]
                /\ pc' = "u_begin"
                /\ UNCHANGED <<tdb, run, ds>>
             \/ /\ CanCreate(tdb, stmt)
                /\ tdb' = CreateTable(tdb, stmt)
                /\ RAdvance([run EXCEPT !.replicated_tables =
                                Append(@, [name |-> t, tag |-> "nova estrutura criada"])])
                /\ UNCHANGED <<u, ds>>
    /\ UNCHANGED <<fkRows, sdb, tdb0, maintain, req, sortOut, plan, val>>

\* line 310: the structural update returned.
RUpdateDone ==
    /\ pc = "u_returned"
    /\ run.i > 0
    /\ RAdvance([run EXCEPT !.replicated_tables =
                    Append(@, [name |-> u.table, tag |-> "estrutura atualizada, dados preservados"]),
                  !.fk_last = u.fk_last])
    /\ u' = NoUpdate
    /\ UNCHANGED <<fkRows, sdb, tdb, tdb0, maintain, req, sortOut, plan, ds, val>>

\* line 1011: the class of the exception that leaves the structural
\* update, whatever failed inside it.
update_error == "ReplicationError"

\* lines 318-366 after line 309: the structural update raised; its message
\* carries the text of the failing statement's error, which may or may not
\* name a foreign key or constraint.
RUpdateFailed ==
    /\ pc = "u_raised"
    /\ run.i > 0
    /\ \E fk_message \in BOOLEAN :
          RTableError([run EXCEPT !.fk_last = u.fk_last], u.table,
                      update_error, fk_message, tdb, u.stmt)
    /\ u' = NoUpdate
    /\ UNCHANGED <<fkRows, sdb, tdb0, maintain, req, sortOut, plan, val>>

RunStep ==
    \/ RBackup
    \/ RStart
    \/ RMaintain
    \/ RStructure
    \/ RDataDone
    \/ RDataFailed
    \/ RUpdateDone
    \/ RUpdateFailed

\* ============================================================== SpecRun
\* execute_replication on a source holding A and B.  The source rows carry
\* payload values (column a) the target never holds; A may hold a row with
\* identity 0; B may reference A; the source may also be empty.  The target
\* may hold A and B already, B
\* with an extra column, and holds C, a table the source does not have.
\* Every statement may fail.
SrcRow(id, a) == [c \in {"id", "a"} |-> IF c = "id" THEN id ELSE a]

TgtRow(cols, id, v) == [c \in cols |-> IF c = "id" THEN id ELSE v]

SrcRowsA == {<<>>, <<SrcRow(0, 7), SrcRow(1, 8)>>, <<SrcRow(1, 7)>>}

InitRun ==
    /\ pc = "r_begin"
    /\ \/ \E rowsA \in SrcRowsA : \E fksB \in {{}, {"A"}} :
             /\ sdb = [t \in Tables |->
                         IF t = "A"
                         THEN [ex |-> TRUE, cols |-> {"id", "a"}, ai |-> TRUE,
                               next |-> NextOf({"id", "a"}, rowsA), fks |-> {}, rows |-> rowsA]
                         ELSE IF t = "B"
                         THEN [ex |-> TRUE, cols |-> {"id", "a"}, ai |-> TRUE,
                               next |-> 2, fks |-> fksB, rows |-> <<SrcRow(1, 8)>>]
                         ELSE Absent]
             /\ fkRows = IF fksB = {} THEN <<>> ELSE <<[tbl |-> "B", ref |-> "A"]>>
       \/ /\ sdb = [t \in Tables |-> Absent]
          /\ fkRows = <<>>
    /\ \E hasA \in BOOLEAN : \E hasB \in BOOLEAN : \E colsB \in {{"id", "a"}, {"id", "a", "b"}} :
       \E rowsB \in {<<>>, <<TgtRow(colsB, 0, 1), TgtRow(colsB, 1, 2)>>} :
          tdb = [n \in Names |->
                   IF n = "A" /\ hasA
                   THEN [ex |-> TRUE, cols |-> {"id", "a"}, ai |-> TRUE, next |-> 2,
                         fks |-> {}, rows |-> <<TgtRow({"id", "a"}, 1, 1)>>]
                   ELSE IF n = "B" /\ hasB
                   THEN [ex |-> TRUE, cols |-> colsB, ai |-> FALSE, next |-> 1,
                         fks |-> {}, rows |-> rowsB]
                   ELSE IF n = "C"
                   THEN [ex |-> TRUE, cols |-> {"id", "a"}, ai |-> FALSE, next |-> 1,
                         fks |-> {}, rows |-> <<TgtRow({"id", "a"}, 1, 3)>>]
                   ELSE Absent]
    /\ tdb0 = tdb
    /\ val = NoValidation
    /\ maintain \in {<<>>, <<"A">>}
    /\ req \in {NoReq} \cup {[none |-> FALSE, list |-> l] : l \in {<<"B", "A">>, <<"C">>}}
    /\ sortOut = <<>>
    /\ plan = EmptyPlan
    /\ u = NoUpdate
    /\ ds = NoData
    /\ \E cb \in BOOLEAN : \E rd \in BOOLEAN :
          run = [NoRun EXCEPT !.create_backup = cb, !.replicate_data = rd]

NextRun == RunStep \/ UpdateStep \/ DataStep

SpecRun == InitRun /\ [][NextRun]_vars

\* The maintained tables of the plan whose source identity column holds 0.
ZeroMaintained ==
    {t \in Range(PlanNames(plan)) :
        InSeq(t, maintain) /\ sdb[t].ai /\ ZeroRows(sdb[t]) # {}}

SourcePayload ==
    UNION {{sdb[t].rows[i]["a"] : i \in 1..Len(sdb[t].rows)} : t \in Existing(sdb)}

\* The non-maintained tables of the plan.
PlannedStructureOnly ==
    {t \in Range(PlanNames(plan)) : ~InSeq(t, maintain)}

\* C9: for every non-maintained table in the plan, execute_replication
\* never copies a source row into the target: at every point of the run a
\* table absent from the target before the run is absent or empty, and one
\* present before the run holds no more rows than before, each carrying the
\* payload of a row the target held before the run and none a payload of
\* the source.
C9_NoSourceRowInStructureOnlyTable ==
    \A t \in PlannedStructureOnly :
        tdb[t].ex =>
            /\ ~tdb0[t].ex => tdb[t].rows = <<>>
            /\ Len(tdb[t].rows) <= Len(tdb0[t].rows)
            /\ \A i \in 1..Len(tdb[t].rows) :
                  /\ tdb[t].rows[i]["a"] \notin SourcePayload
                  /\ \E j \in 1..Len(tdb0[t].rows) :
                        tdb[t].rows[i]["a"] = tdb0[t].rows[j]["a"]

\* The run ended having synchronised maintained A from the source and
\* updated non-maintained B, which keeps its two rows.
C9_Witness ==
    /\ pc = "r_report"
    /\ InSeq("A", run.data_replicated_tables)
    /\ "B" \in PlannedStructureOnly
    /\ \E k \in 1..Len(run.replicated_tables) :
          run.replicated_tables[k] =
              [name |-> "B", tag |-> "estrutura atualizada, dados preservados"]
    /\ Len(tdb["B"].rows) = 2
    /\ sdb["B"].rows # <<>>

\* The names in replicated_tables.
ReplicatedNames ==
    {run.replicated_tables[k].name : k \in 1..Len(run.replicated_tables)}

\* C10: a failure while migrating or syncing one table never aborts
\* execute_replication: once the loop has begun the run never raises; the
\* report is returned after the last plan entry, with every plan entry in
\* replicated_tables or failed_tables, and every table whose processing
\* raised an error in failed_tables or reported with its structure only.
C10_TableFailureNeverAborts ==
    /\ pc = "r_raised" => run.i = 0
    /\ (pc = "r_report" /\ plan.tables_to_replicate # <<>>) =>
          /\ run.i = Len(plan.tables_to_replicate) + 1
          /\ Range(PlanNames(plan)) \subseteq ReplicatedNames \cup Range(run.failed_tables)
          /\ \A t \in run.errors :
                \/ InSeq(t, run.failed_tables)
                \/ \E k \in 1..Len(run.replicated_tables) :
                      run.replicated_tables[k] = [name |-> t, tag |-> "apenas estrutura"]

\* The first plan entry failed, the second was processed and reported, and
\* the report was returned.
C10_Witness ==
    /\ pc = "r_report"
    /\ Len(plan.tables_to_replicate) = 2
    /\ run.failed_tables = <<plan.tables_to_replicate[1].name>>
    /\ plan.tables_to_replicate[2].name \in ReplicatedNames

\* C11: if _replicate_table_data raises for a maintained table, the table's
\* freshly created structure remains in the target and the table is
\* reported as a per-table failure of the run: it is in failed_tables and
\* the run's success flag is false.
C11_DataFailureIsTableFailure ==
    pc = "r_report" =>
        \A t \in run.data_raised :
            /\ tdb[t].ex
            /\ InSeq(t, run.failed_tables)
            /\ ~run.success

\* C11 as amended: if _replicate_table_data raises for a maintained table,
\* the table's freshly created structure (the source's columns) remains in
\* the target and the table is reported in replicated_tables with the
\* structure-only tag; it is neither in failed_tables nor in
\* data_replicated_tables, so the failure does not make success false.
C11_DataFailureIsStructureOnly ==
    pc = "r_report" =>
        \A t \in run.data_raised :
            /\ tdb[t].ex
            /\ tdb[t].cols = sdb[t].cols
            /\ \E k \in 1..Len(run.replicated_tables) :
                  run.replicated_tables[k] = [name |-> t, tag |-> "apenas estrutura"]
            /\ ~InSeq(t, run.failed_tables)
            /\ ~InSeq(t, run.data_replicated_tables)

\* The data synchronisation of maintained A raised, nothing else failed,
\* and the report says success.
C11_Witness ==
    /\ pc = "r_report"
    /\ run.data_raised = {"A"}
    /\ tdb["A"].ex
    /\ run.failed_tables = <<>>
    /\ run.success

\* C12: in every report returned by execute_replication, success is true
\* if and only if the failed-table list is empty; a run with some tables
\* migrated and some failed returns success = false without raising.
C12_SuccessIffNoFailedTable ==
    pc = "r_report" => (run.success <=> run.failed_tables = <<>>)

\* A report with one table migrated and one failed, success false.
C12_Witness ==
    /\ pc = "r_report"
    /\ Len(run.replicated_tables) = 1
    /\ Len(run.failed_tables) = 1
    /\ ~run.success

\* How many times a name occurs in a list of names.
Count(x, s) == Cardinality({k \in 1..Len(s) : s[k] = x})

\* The names in replicated_tables, in order.
ReplicatedList == [k \in 1..Len(run.replicated_tables) |-> run.replicated_tables[k].name]

\* C13: every plan entry processed by execute_replication ends in exactly
\* one terminal outcome: while the loop runs the entries already processed,
\* and in the report all entries, are once in replicated_tables or once in
\* failed_tables, never in both and never in neither, so that
\* len(replicated_tables) + len(failed_tables) = len(tables_to_replicate).
C13_ExactlyOneOutcome ==
    /\ pc = "r_table" =>
          Len(run.replicated_tables) + Len(run.failed_tables) = run.i - 1
    /\ pc = "r_report" =>
          /\ Len(run.replicated_tables) + Len(run.failed_tables)
                = Len(plan.tables_to_replicate)
          /\ \A t \in Tables :
                Count(t, ReplicatedList) + Count(t, run.failed_tables)
                    = Count(t, PlanNames(plan))

\* A report of a two-entry plan, one entry replicated and the other failed.
C13_Witness ==
    /\ pc = "r_report"
    /\ Len(plan.tables_to_replicate) = 2
    /\ ReplicatedList = <<"B">>
    /\ run.failed_tables = <<"A">>

\* C14: when creating a table fails with a foreign-key/constraint error,
\* execute_replication retries the creation once with the FK-stripped
\* statement: the table is retried, and it is in failed_tables only if the
\* retry failed, otherwise it is reported with the no-FK tag.
C14_FkFailureRetriedOnce ==
    pc = "r_report" =>
        \A t \in run.fk_failed :
            /\ t \in run.retried
            /\ \/ InSeq(t, run.failed_tables)
               \/ \E k \in 1..Len(run.replicated_tables) :
                     /\ run.replicated_tables[k].name = t
                     /\ run.replicated_tables[k].tag
                            \in {"sem FKs", "sem FKs, estrutura + dados"}

\* C15: on every exit of execute_replication (report returned or error
\* raised) reached after foreign-key checks were disabled on the target,
\* the last foreign-key toggle issued is a re-enable: no run ends with a
\* disable as its last toggle.
C15_RunExitsAfterReenable ==
    (pc \in {"r_report", "r_raised"} /\ run.fk_last # "none") =>
        run.fk_last = "enable"

\* A report returned after a run in which both tables failed, the
\* maintained one included, and the target is as it was.
C15_Witness ==
    /\ pc = "r_report"
    /\ run.fk_last = "enable"
    /\ Len(plan.tables_to_replicate) = 2
    /\ run.failed_tables = <<"B", "A">>
    /\ InSeq("A", maintain)
    /\ tdb = tdb0

\* C16: every exit of _update_table_structure_preserving_data, whether it
\* returns or raises (including when a cleanup step itself fails), is
\* preceded by a re-enable of foreign-key checks issued after its last
\* disable.
C16_UpdateExitsAfterReenable ==
    pc \in {"u_returned", "u_raised"} => u.fk_last = "enable"

\* The update raised after a statement of its cleanup block failed.
C16_Witness ==
    /\ pc = "u_raised"
    /\ ~u.cleanup_ok
    /\ u.failed = "rename_temp"
    /\ u.fk_last = "enable"

\* C17: with create_backup = true, the safety backup is created exactly once
\* and before any statement that changes the target: while the target
\* differs from its state before the run, and when the report is returned,
\* exactly one backup has been made; if backup creation fails,
\* execute_replication raises with the target as it was before the run.
C17_BackupOnceBeforeAnyChange ==
    run.create_backup =>
        /\ run.backups <= 1
        /\ tdb # tdb0 => run.backups = 1
        /\ pc = "r_report" => run.backups = 1
        /\ run.backup_failed => (pc = "r_raised" /\ run.backups = 0 /\ tdb = tdb0)

\* A run with create_backup = true that made its backup, changed the target
\* and returned its report.
C17_Witness ==
    /\ pc = "r_report"
    /\ run.create_backup
    /\ run.backups = 1
    /\ tdb # tdb0
    /\ InSeq("A", run.data_replicated_tables)

\* C18: execute_replication never drops, renames, alters or writes any
\* target table that is not an entry of the plan: at every point of the run
\* each such table is as it was before the run; in particular every table
\* listed in tables_to_drop exists unchanged after the run.
C18_TablesOutsidePlanUntouched ==
    /\ \A t \in Tables \ Range(PlanNames(plan)) : tdb[t] = tdb0[t]
    /\ pc = "r_report" =>
          \A t \in Range(plan.tables_to_drop) : tdb[t].ex /\ tdb[t] = tdb0[t]

\* The report of a run that changed planned tables while C, listed in
\* tables_to_drop, is still there with its row.
C18_Witness ==
    /\ pc = "r_report"
    /\ plan.tables_to_drop = <<"C">>
    /\ tdb # tdb0
    /\ tdb["C"].ex
    /\ Len(tdb["C"].rows) = 1
    /\ ReplicatedList = <<"A", "B">>

\* C19: every entry of tables_to_replicate names a table of the source
\* table set; each table the plan works on that is missing from the source
\* is left out of tables_to_replicate and has exactly one warning, and a
\* table found in the source has none.
C19_PlanEntriesExistInSource ==
    (pc = "planned" /\ ~plan.error) =>
        LET tables == PlanTables(req, maintain, Existing(sdb))
        IN /\ Range(PlanNames(plan)) \subseteq Existing(sdb)
           /\ \A t \in Range(tables) \ Existing(sdb) :
                 /\ ~InSeq(t, PlanNames(plan))
                 /\ Count(t, plan.warnings) = 1
           /\ \A t \in Existing(sdb) : Count(t, plan.warnings) = 0
           /\ Len(plan.warnings) = Cardinality(Range(tables) \ Existing(sdb))

\* A plan for [B, A, C] on a source that holds only A: one entry, and one
\* warning each for B and C.
C19_Witness ==
    /\ pc = "planned"
    /\ req.list = <<"B", "A", "C">>
    /\ Existing(sdb) = {"A"}
    /\ PlanNames(plan) = <<"A">>
    /\ plan.warnings = <<"B", "C">>

C20_WitnessAllSource ==
    /\ pc = "planned"
    /\ req.list = <<>>
    /\ ~req.none
    /\ maintain = <<>>
    /\ PlanNames(plan) = <<"A", "B", "C">>

\* C21: whenever planning falls back to every source table (no tables
\* requested and an empty maintain list), tables_to_replicate is in
\* dependency order for acyclic FK graphs: no table precedes a table it
\* references.
C21_FallbackPlanOrdered ==
    (pc = "planned" /\ ~plan.error /\ req.list = <<>> /\ maintain = <<>>
        /\ Acyclic(fkRows, PlanNames(plan)))
        => DependencyOrdered(fkRows, PlanNames(plan), PlanNames(plan))

\* The tag a table carries in replicated_tables ("" when it is not there).
TagOf(t) ==
    IF InSeq(t, ReplicatedList)
    THEN run.replicated_tables[IndexOf(t, ReplicatedList)].tag
    ELSE ""

DataPcs == {"d_begin", "d_alter", "d_delete", "d_count", "d_batch", "d_post",
            "d_raised", "d_returned"}

\* C23: when execute_replication is called with replicate_data = false, no
\* row data is copied or deleted for any table: _replicate_table_data is
\* never invoked, data_replicated_tables is empty in the report and no
\* target table holds a source row.
C23_StructureOnlyRunCopiesNoData ==
    ~run.replicate_data =>
        /\ pc \notin DataPcs
        /\ run.data_replicated_tables = <<>>
        /\ \A t \in Tables : \A j \in 1..Len(tdb[t].rows) :
              tdb[t].rows[j]["a"] \notin SourcePayload

\* C24 as claimed: a run whose plan has no entry never completes with a
\* report.
C24_EmptyPlanAborts ==
    pc = "r_report" => plan.tables_to_replicate # <<>>

\* C24 as the code has it: the run is aborted (ReplicationError, nothing
\* touched) when the planner has no table to work on, which is when no
\* table is requested, the maintain list is empty and the source has no
\* table; when it has tables to work on but none of them exists in the
\* source, the run completes with a short report saying success, with no
\* table replicated or failed and the target untouched.
C24_EmptyListAbortsEmptyPlanReports ==
    /\ plan.error <=>
          /\ pc = "r_raised"
          /\ ~run.backup_failed
          /\ sortOut = <<>> /\ maintain = <<>> /\ Existing(sdb) = {}
          /\ plan # EmptyPlan
    /\ plan.error => tdb = tdb0
    /\ (pc = "r_report" /\ plan.tables_to_replicate = <<>>) =>
          /\ PlanTables([none |-> FALSE, list |-> sortOut], maintain, Existing(sdb)) # <<>>
          /\ Len(plan.warnings) > 0
          /\ run.success
          /\ run.replicated_tables = <<>>
          /\ run.failed_tables = <<>>
          /\ run.data_replicated_tables = <<>>
          /\ tdb = tdb0

\* Requested [C] on a source without C: the run ends with the short report.
C24_Witness ==
    /\ pc = "r_report"
    /\ req.list = <<"C">>
    /\ Existing(sdb) = {"A", "B"}
    /\ plan.tables_to_replicate = <<>>
    /\ plan.warnings = <<"C">>
    /\ run.success

\* No list, no maintain list, an empty source: the planner raises.
C24_WitnessRaised ==
    /\ pc = "r_raised"
    /\ plan.error
    /\ req.none
    /\ Existing(sdb) = {}

\* C25: a connection failure to the source or the target at any point of a
\* run is fatal to the whole run: once a statement of a table's processing
\* has raised DatabaseConnectionError, the class get_connection gives a
\* connection failure, the run aborts with an error; the table is not
\* recorded as one table's failure with the loop going on to the next table
\* and to the report.
C25_ConnectionFailureAborts ==
    (run.errors # {} \/ run.data_raised # {}) => pc = "r_raised"

\* ============================================================== SpecVal
\* validate_replication on two schemas.  The source holds A with an id
\* column and possibly a column a; the target may hold A with any one or
\* two columns of those names; B is in both schemas with the same
\* structure, or missing from one of them; C is in neither.  Every
\* structure query may fail.
IdCol ==
    [Field |-> "id", Type |-> "int", Null |-> "NO", Key |-> "PRI",
     Default |-> NULL, Extra |-> "auto_increment"]

ACol ==
    [Field |-> "a", Type |-> "varchar", Null |-> "YES", Key |-> "",
     Default |-> NULL, Extra |-> ""]

SourceStructures == {<<IdCol, ACol>>, <<IdCol>>}

TargetIdCols == {c \in Column : c.Field = "id"}

TargetACols ==
    {c \in Column : c.Field = "a" /\ c.Null = "YES" /\ c.Default = NULL /\ c.Extra = ""}

TargetStructures ==
    {<<c>> : c \in TargetIdCols \cup TargetACols}
    \cup {<<c, d>> : c \in TargetIdCols, d \in TargetACols}
    \cup {<<d, c>> : c \in TargetIdCols, d \in TargetACols}

Held(structure) == [ex |-> TRUE, structure |-> structure]

NotHeld == [ex |-> FALSE, structure |-> <<>>]

SchemaTables(db) == {t \in Tables : db[t].ex}

InitVal ==
    /\ pc = "v_begin"
    /\ fkRows = <<>>
    /\ sdb = [t \in Tables |-> Absent]
    /\ tdb = [n \in Names |-> Absent]
    /\ tdb0 = tdb
    /\ maintain \in {<<>>, <<"B">>}
    /\ req \in {NoReq} \cup {[none |-> FALSE, list |-> l] : l \in {<<"A", "B">>, <<"C", "A">>}}
    /\ sortOut = <<>>
    /\ plan = EmptyPlan
    /\ u = NoUpdate
    /\ ds = NoData
    /\ run = NoRun
    /\ \E sA \in SourceStructures :
       \E tA \in {NotHeld} \cup {Held(g) : g \in TargetStructures} :
       \E b \in {"both", "source", "target"} :
          val = [NoValidation EXCEPT
                    !.source_db = [t \in Tables |->
                                      IF t = "A" THEN Held(sA)
                                      ELSE IF t = "B" /\ b # "target" THEN Held(<<IdCol>>)
                                      ELSE NotHeld],
                    !.target_db = [t \in Tables |->
                                      IF t = "A" THEN tA
                                      ELSE IF t = "B" /\ b # "source" THEN Held(<<IdCol>>)
                                      ELSE NotHeld]]

\* lines 458-474: the table list and the target's tables; a failure here
\* leaves validate_replication as ReplicationError.
ValBegin ==
    /\ pc = "v_begin"
    /\ \/ LET tables == ValidationTables(req, maintain, SchemaTables(val.source_db))
          IN /\ val' = [val EXCEPT !.tables = tables,
                                   !.target_tables = get_tables(SchemaTables(val.target_db)),
                                   !.i = 1]
             /\ pc' = IF tables = <<>> THEN "v_report" ELSE "v_table"
       \/ /\ pc' = "v_raised"
          /\ UNCHANGED val
    /\ UNCHANGED <<fkRows, sdb, tdb, tdb0, maintain, req, sortOut, plan, u, ds, run>>

\* lines 476-500: one table of the loop.  DESCRIBE raises for a table the
\* source does not hold, and any structure query may fail.
ValTable ==
    /\ pc = "v_table"
    /\ LET table == val.tables[val.i]
           next(v) == [v EXCEPT !.i = @ + 1]
       IN \/ /\ ~InSeq(table, val.target_tables)
             /\ val' = next(ValMissing(val, table))
          \/ /\ InSeq(table, val.target_tables)
             /\ val' = next(ValRaised(val, table))
          \/ /\ InSeq(table, val.target_tables)
             /\ val.source_db[table].ex
             /\ val' = next(ValCompare(val, table))
    /\ pc' = IF val.i < Len(val.tables) THEN "v_table" ELSE "v_report"
    /\ UNCHANGED <<fkRows, sdb, tdb, tdb0, maintain, req, sortOut, plan, u, ds, run>>

NextVal == ValBegin \/ ValTable

SpecVal == InitVal /\ [][NextVal]_vars

\* A column list reduced to (name, type, nullability, default, extra).
Reduced(structure) ==
    [i \in 1..Len(structure) |->
        <<structure[i].Field, structure[i].Type, structure[i].Null,
          structure[i].Default, structure[i].Extra>>]

\* The tables of the entries of structure_differences, in order.
DifferenceTables ==
    [k \in 1..Len(val.structure_differences) |-> val.structure_differences[k].table]

\* The tables the loop has gone through.
Validated == {val.tables[k] : k \in 1..(val.i - 1)}

\* C26: validate_replication reports a table in structure_matches if and
\* only if the source and target column lists, each reduced to (name, type,
\* nullability, default, extra), are exactly equal (for a table held by both
\* schemas whose structure queries succeeded); a difference only in key
\* metadata does not prevent a match.
C26_MatchIffReducedListsEqual ==
    \A t \in Validated :
        InSeq(t, val.structure_matches) <=>
            /\ val.source_db[t].ex
            /\ val.target_db[t].ex
            /\ t \notin val.raised
            /\ Reduced(val.source_db[t].structure) = Reduced(val.target_db[t].structure)

\* A is reported as a match although its two definitions differ, in Key.
C26_Witness ==
    /\ pc = "v_report"
    /\ InSeq("A", val.structure_matches)
    /\ val.source_db["A"].structure # val.target_db["A"].structure
    /\ Len(val.source_db["A"].structure) = 2

\* The (column, attribute) pairs on which two definitions differ.
AttrDiffs(s, g) ==
    {<<f, a>> \in Fields \X {"Type", "Null", "Default", "Extra"} :
        /\ f \in FieldNames(s) \cap FieldNames(g)
        /\ FieldColumn(s, f)[a] # FieldColumn(g, f)[a]}

\* C27: when the source and target definitions of a table differ in exactly
\* one attribute of exactly one column, the column names being the same,
\* _find_structure_differences returns exactly one difference line, naming
\* that column.
C27_OneAttributeOneLine ==
    \A k \in 1..Len(val.structure_differences) :
        LET e == val.structure_differences[k]
            s == val.source_db[e.table].structure
            g == val.target_db[e.table].structure
        IN (FieldNames(s) = FieldNames(g) /\ Cardinality(AttrDiffs(s, g)) = 1) =>
              /\ Len(e.differences) = 1
              /\ e.differences[1].kind = "diferente"
              /\ \E a \in {"Type", "Null", "Default", "Extra"} :
                    <<e.differences[1].field, a>> \in AttrDiffs(s, g)

\* A's column a is int in the target and varchar in the source, nothing
\* else differs: the entry of A has the one line for a.
C27_Witness ==
    /\ pc = "v_report"
    /\ Len(val.structure_differences) = 1
    /\ val.structure_differences[1].table = "A"
    /\ AttrDiffs(val.source_db["A"].structure, val.target_db["A"].structure)
          = {<<"a", "Type">>}
    /\ val.structure_differences[1].differences = <<[kind |-> "diferente", field |-> "a"]>>

\* C28: validate_replication puts each requested table in at most one of
\* structure_matches, structure_differences and missing_tables; a table
\* absent from the target appears only in missing_tables and is not counted
\* in tables_validated, and tables_validated equals the number of matches
\* plus the number of differences.
C28_ReportListsDisjoint ==
    /\ \A t \in Tables :
          /\ Count(t, val.structure_matches) + Count(t, DifferenceTables)
                + Count(t, val.missing_tables) <= 1
          /\ InSeq(t, val.missing_tables) <=> (t \in Validated /\ ~val.target_db[t].ex)
    /\ val.tables_validated = Len(val.structure_matches) + Len(val.structure_differences)

\* Requested [C, A]: C is missing from the target, A differs; one table is
\* counted as validated.
C28_Witness ==
    /\ pc = "v_report"
    /\ val.tables = <<"C", "A">>
    /\ val.missing_tables = <<"C">>
    /\ DifferenceTables = <<"A">>
    /\ val.tables_validated = 1

\* ========================================================= SpecDataLive
\* _replicate_table_data on a source that is in use: while the routine
\* runs, another session may delete the source's identity-0 rows.
SourceDeletesZeroRows ==
    /\ pc \in {"d_alter", "d_delete", "d_count", "d_batch"}
    /\ "id" \in sdb[ds.table].cols
    /\ HasZeroId(sdb, ds.table)
    /\ sdb' = [sdb EXCEPT ![ds.table].rows = SelectSeq(@, LAMBDA r : r["id"] # 0)]
    /\ UNCHANGED <<pc, fkRows, tdb, tdb0, maintain, req, sortOut, plan, u, ds, run, val>>

NextDataLive == DataStep \/ SourceDeletesZeroRows

SpecDataLive == InitData /\ [][NextDataLive]_vars

\* The largest identity value of the table's rows (0 without rows).
MaxIdentity(tbl) ==
    LET ids == {tbl.rows[i]["id"] : i \in 1..Len(tbl.rows)}
    IN IF ids = {} THEN 0 ELSE CHOOSE m \in ids : \A x \in ids : x <= m

RunReport(r, p) ==
    [success |-> r.success,
     replicated_tables |-> r.replicated_tables,
     data_replicated_tables |-> r.data_replicated_tables,
     failed_tables |-> r.failed_tables,
     tables_to_replicate |-> p.tables_to_replicate]

InitRerun ==
    /\ InitRun
    /\ ~run.create_backup
    /\ run.replicate_data
    /\ Len(sdb["A"].rows) = 2
    /\ req.list # <<"C">>
    /\ tdb["B"].rows = <<>>

\* The second call: the first report is kept aside and the locals start
\* afresh.
RAgain ==
    /\ pc = "r_report"
    /\ run.first = <<>>
    /\ run' = [NoRun EXCEPT !.create_backup = run.create_backup,
                            !.replicate_data = run.replicate_data,
                            !.first = <<RunReport(run, plan)>>]
    /\ pc' = "r_begin"
    /\ plan' = EmptyPlan
    /\ sortOut' = <<>>
    /\ u' = NoUpdate
    /\ ds' = NoData
    /\ UNCHANGED <<fkRows, sdb, tdb, tdb0, maintain, req, val>>

NextRerun == NextRun \/ RAgain

SpecRerun == InitRerun /\ [][NextRerun]_vars

\* No table of the report failed, in its structure or in its data.
CleanReport(rep) ==
    /\ rep.failed_tables = <<>>
    /\ \A k \in 1..Len(rep.replicated_tables) :
          rep.replicated_tables[k].tag \notin {"apenas estrutura", "sem FKs"}

\* The second report is reached, and no table failed in either run.
BothReportsClean ==
    /\ pc = "r_report"
    /\ run.first # <<>>
    /\ CleanReport(run.first[1])
    /\ CleanReport(RunReport(run, plan))

C29_WitnessSame ==
    /\ BothReportsClean
    /\ tdb0["A"].ex
    /\ tdb0["B"].ex
    /\ Len(plan.tables_to_replicate) = 2
    /\ RunReport(run, plan) = run.first[1]

\* The table as it was before the update is held under the original name
\* or under the backup name.
OldTableHeld(db) ==
    \/ db[u.table] = tdb0[u.table]
    \/ db[BackupName(u.table)] = tdb0[u.table]

\* C31: at every point of _update_table_structure_preserving_data before
\* the backup table is dropped, the table's complete pre-update rows are
\* held intact under the original name or under the backup name; the
\* original is renamed to the backup strictly before the temporary table is
\* renamed to the original name, and the backup is dropped only after that
\* second rename has succeeded.
C31_OldRowsHeldUntilBackupDropped ==
    [][/\ OldTableHeld(tdb') \/ (~u'.temp_table /\ ~tdb'[BackupName(u.table)].ex
                                   /\ tdb'[u.table].ex)
       /\ (u.temp_table /\ ~u'.temp_table) =>
             /\ tdb[BackupName(u.table)] = tdb0[u.table]
             /\ ~tdb[u.table].ex
             /\ tdb'[u.table] = tdb[TempName(u.table)]
       /\ (tdb[BackupName(u.table)].ex /\ ~tdb'[BackupName(u.table)].ex) =>
             \/ tdb'[u.table] = tdb0[u.table]
             \/ (~u.temp_table /\ tdb[u.table].ex /\ tdb'[u.table] = tdb[u.table])]_vars

\* Both renames done and the backup not dropped yet: the two old rows are
\* under the backup name, the new table under the original name differs.
C31_Witness ==
    /\ pc = "u_drop_backup"
    /\ tdb[BackupName(u.table)] = tdb0[u.table]
    /\ Len(tdb0[u.table].rows) = 2
    /\ tdb[u.table].ex
    /\ tdb[u.table] # tdb0[u.table]
    /\ ~tdb[TempName(u.table)].ex


\* C32: for any FK graph, cyclic or not, the order returned by
\* _sort_tables_by_dependencies places the referenced table before the
\* referencing one for every edge between listed tables that lies on no
\* cycle; only an edge on a cycle (one whose target reaches back to its
\* origin) may be out of order.
OnCycle(rows, tables, e) == e[1] = e[2] \/ <<e[2], e[1]>> \in Reach(rows, tables)

SpecDataFair == InitData /\ [][NextData]_vars /\ WF_vars(NextData)

\* The offsets 0, b, 2b, ... of the pages that cover n rows.
PageOffsets(n, b) == [i \in 1..((n + b - 1) \div b) |-> (i - 1) * b]

C34_ForeignKeysReported ==
    (pc = "planned" /\ ~plan.error) =>
        \A i \in 1..Len(plan.tables_to_replicate) :
            LET e == plan.tables_to_replicate[i]
                refs == FkQuery(fkRows, e.name)
            IN /\ e.has_foreign_keys <=> (refs # <<>>)
               /\ \A j \in 1..Len(refs) :
                     refs[j] \notin Existing(sdb) =>
                        InSeq([ref |-> refs[j], tbl |-> e.name], plan.foreign_key_issues)

\* A plan entry for a source table that has a foreign key.
C34_Witness ==
    /\ pc = "planned"
    /\ ~plan.error
    /\ \E i \in 1..Len(plan.tables_to_replicate) :
          FkQuery(fkRows, plan.tables_to_replicate[i].name) # <<>>


\* C35: whenever validate_replication reports a table in
\* structure_differences the table's differences list is non-empty: every
\* mismatch of the normalised column lists, the same columns in a different
\* order included, is explained by at least one line for a missing or
\* differing column.
C35_DifferencesExplained ==
    \A k \in 1..Len(val.structure_differences) :
        val.structure_differences[k].differences # <<>>

\* A table reported as different whose two normalised lists hold the same
\* columns in a different order.
C35_Witness ==
    \E k \in 1..Len(val.structure_differences) :
        LET t == val.structure_differences[k].table
            source_basic == Reduced(val.source_db[t].structure)
            target_basic == Reduced(val.target_db[t].structure)
        IN /\ source_basic # target_basic
           /\ Range(source_basic) = Range(target_basic)
           /\ Len(source_basic) = Len(target_basic)


\* C36: every call of _replicate_table_data, which asks for the
\* zero-preserving SQL mode on entry, has asked for the default SQL mode
\* again by the time it returns or raises, on every exit path: normal
\* completion, the early return on an empty source table, any exception.
C36_SqlModeRestoredOnEveryExit ==
    pc \in {"d_returned", "d_raised"} => ds.mode = set_zero_preserve_mode(FALSE)

\* The routine returned from a source table with rows.
C36_Witness ==
    /\ pc = "d_returned"
    /\ ds.total = MaxRows
    /\ ds.mode = set_zero_preserve_mode(FALSE)


\* C37: between the run-level disable of foreign-key checks and the
\* run-level re-enable of execute_replication the checks stay disabled
\* while the plan entries are processed: whenever the loop takes up an
\* entry, and while a table's data is synchronised, the last foreign-key
\* statement issued on the target is the disable; no per-table step
\* (structural update, drop_table_if_exists, cleanup) has issued an enable.
C37_ChecksStayDisabledInLoop ==
    (pc = "r_table" \/ pc \in DataPcs) => run.fk_last = disable_foreign_key_checks(run.fk_last)

\* The loop takes up its second entry after the first table was replicated.
C37_Witness ==
    /\ pc = "r_table"
    /\ run.i = 2
    /\ Len(run.replicated_tables) = 1


NoFkTags == {"sem FKs", "sem FKs, estrutura + dados"}

C39_UntaggedTablesKeepForeignKeys ==
    pc = "r_report" =>
        \A k \in 1..Len(run.replicated_tables) :
            LET e == run.replicated_tables[k]
            IN e.tag \notin NoFkTags =>
                  /\ tdb[e.name].ex
                  /\ get_create_table_statement(sdb, e.name).fks \subseteq tdb[e.name].fks

\* The report of a run that took a non-maintained table whose source
\* definition has a foreign key through the temp-table swap.
C39_Witness ==
    /\ pc = "r_report"
    /\ \E k \in 1..Len(run.replicated_tables) :
          LET e == run.replicated_tables[k]
          IN /\ e.tag = "estrutura atualizada, dados preservados"
             /\ sdb[e.name].fks # {}

====
